---- MODULE Spec2Model ----
(***************************************************************************)
(* Model of src/src/main.py: MyService.process (the Hugging Face           *)
(* text-to-audio bridge) and the lifespan hook (startup announce task and  *)
(* shutdown sequence).                                                     *)
(***************************************************************************)
EXTENDS Integers, Sequences, FiniteSets, TLC

\* ------------------------------------------------------------------ bounds
\* Longest prompt (input_text), in characters, that a call is given.
MaxPromptLen == 3
\* Longest prompt given to the payload construction alone.
MaxInjectLen == 6
\* Largest settings.engine_announce_retries.
MaxRetries == 3
\* Longest settings.engine_urls.
MaxEngines == 2

\* ------------------------------------------------------- characters, text
QUOTE == "\""
BSLASH == "\\"
LF == "\n"
SP == " "
\* The character the escape backslash-u-aaaa decodes to.
UAAAA == "U+AAAA"

\* The characters a prompt is made of: a letter (also a hex digit), the two
\* characters JSON strings escape, a control character, and the two JSON
\* delimiters.
Alphabet == {"a", QUOTE, BSLASH, LF, ",", ":"}

SeqsUpTo(S, n) == UNION {[1..k -> S] : k \in 0..n}

Prompts == SeqsUpTo(Alphabet, MaxPromptLen)

\* ------------------------------------------------------------ JSON values
\* What json.loads returns: None, a number (or bool), a str, a list, a dict.
JNull == [type |-> "null"]
JNumber == [type |-> "number"]
JBool == [type |-> "bool"]
JString(chars) == [type |-> "string", chars |-> chars]
JArray(items) == [type |-> "array", items |-> items]
JObject(members) == [type |-> "object", members |-> members]

ErrorChars == <<"e", "r", "r", "o", "r">>

\* Python's `needle in haystack` for two str.
IsSubstring(needle, hay) ==
    \E i \in 0..(Len(hay) - Len(needle)) :
        \A k \in 1..Len(needle) : hay[i + k] = needle[k]

\* Python's name of a value's type, as its TypeError messages print it.
PyTypeName(j) ==
    CASE j.type = "null" -> "NoneType"
      [] j.type = "number" -> "int"
      [] j.type = "bool" -> "bool"
      [] j.type = "string" -> "str"
      [] j.type = "array" -> "list"
      [] j.type = "object" -> "dict"

\* An exception in flight: its class and the parts of str(exception).
Exc(type, args) == [type |-> type, args |-> args]

\* Python's j[key] for a str key: a dict looks the key up (KeyError when
\* absent, and str(KeyError) is the repr of the key); a list or a str takes
\* integer indices only; None, int and bool are not subscriptable.
PyGetItem(j, key) ==
    CASE j.type = "object" ->
            IF key \in DOMAIN j.members
            THEN [ok |-> TRUE, value |-> j.members[key]]
            ELSE [ok |-> FALSE, exc |-> Exc("KeyError", <<"'", key, "'">>)]
      [] j.type = "array" ->
            [ok |-> FALSE,
             exc |-> Exc("TypeError", <<"list indices must be integers or slices, not str">>)]
      [] j.type = "string" ->
            [ok |-> FALSE,
             exc |-> Exc("TypeError", <<"string indices must be integers, not 'str'">>)]
      [] OTHER ->
            [ok |-> FALSE,
             exc |-> Exc("TypeError", <<"'", PyTypeName(j), "' object is not subscriptable">>)]

\* Python's `'error' in j`: key membership for a dict, element equality for
\* a list, substring for a str, TypeError for None, int and bool.
PyContainsError(j) ==
    CASE j.type = "object" -> [ok |-> TRUE, value |-> "error" \in DOMAIN j.members]
      [] j.type = "array" ->
            [ok |-> TRUE,
             value |-> \E i \in 1..Len(j.items) : j.items[i] = JString(ErrorChars)]
      [] j.type = "string" -> [ok |-> TRUE, value |-> IsSubstring(ErrorChars, j.chars)]
      [] OTHER ->
            [ok |-> FALSE,
             exc |-> Exc("TypeError",
                         <<"argument of type '", PyTypeName(j), "' is not iterable">>)]

\* ------------------------------------------------- json.loads of a text
\* The scanner of json.loads on a text given as a sequence of characters.
\* The texts parsed here are the interpolated payloads; over Alphabet no
\* character starts a value other than a string, so a value is a string or
\* "Expecting value".
IsWhitespace(c) == c \in {SP, LF, "\t", "\r"}

RECURSIVE SkipWhitespace(_, _)
SkipWhitespace(s, i) ==
    IF i <= Len(s) /\ IsWhitespace(s[i]) THEN SkipWhitespace(s, i + 1) ELSE i

JsonError(msg) == [ok |-> FALSE, error |-> msg]

\* py_scanstring, strict: s[i] is the character after the opening quote.
RECURSIVE ScanString(_, _, _)
ScanString(s, i, acc) ==
    IF i > Len(s) THEN JsonError("Unterminated string starting at")
    ELSE IF s[i] = QUOTE THEN [ok |-> TRUE, value |-> acc, next |-> i + 1]
    ELSE IF s[i] = BSLASH THEN
        IF i + 1 > Len(s) THEN JsonError("Unterminated string starting at")
        ELSE IF s[i + 1] \in {QUOTE, BSLASH, "/"}
            THEN ScanString(s, i + 2, Append(acc, s[i + 1]))
        ELSE IF s[i + 1] = "n" THEN ScanString(s, i + 2, Append(acc, LF))
        ELSE IF s[i + 1] = "u" THEN
            IF i + 5 <= Len(s) /\ \A k \in 2..5 : s[i + k] = "a"
            THEN ScanString(s, i + 6, Append(acc, UAAAA))
            ELSE JsonError("Invalid \\uXXXX escape")
        ELSE JsonError("Invalid \\escape")
    ELSE IF s[i] \in {LF, "\t", "\r"} THEN JsonError("Invalid control character at")
    ELSE ScanString(s, i + 1, Append(acc, s[i]))

\* scan_once for a value at s[i].
ScanValue(s, i) ==
    IF i <= Len(s) /\ s[i] = QUOTE THEN ScanString(s, i + 1, <<>>)
    ELSE JsonError("Expecting value")

\* members with members[key] = value, the later of two equal keys winning as
\* in a dict.
SetItem(members, key, value) ==
    [k \in DOMAIN members \cup {key} |-> IF k = key THEN value ELSE members[k]]

\* JSONObject: s[i] is where a property name is expected. The steps after
\* the property name, after the colon, after the value and after the member
\* follow.
RECURSIVE ScanMembers(_, _, _)

AfterMember(s, members, after) ==
    IF after <= Len(s) /\ s[after] = "}"
    THEN [ok |-> TRUE, value |-> members, next |-> after + 1]
    ELSE IF after <= Len(s) /\ s[after] = ","
    THEN ScanMembers(s, SkipWhitespace(s, after + 1), members)
    ELSE JsonError("Expecting ',' delimiter")

AfterValue(s, members, key, val) ==
    IF ~val.ok THEN val
    ELSE AfterMember(s, SetItem(members, key.value, val.value),
                     SkipWhitespace(s, val.next))

AfterColon(s, members, key, colon) ==
    IF colon > Len(s) \/ s[colon] # ":" THEN JsonError("Expecting ':' delimiter")
    ELSE AfterValue(s, members, key, ScanValue(s, SkipWhitespace(s, colon + 1)))

AfterKey(s, members, key) ==
    IF ~key.ok THEN key
    ELSE AfterColon(s, members, key, SkipWhitespace(s, key.next))

ScanMembers(s, i, members) ==
    IF i > Len(s) \/ s[i] # QUOTE
    THEN JsonError("Expecting property name enclosed in double quotes")
    ELSE AfterKey(s, members, ScanString(s, i + 1, <<>>))

\* The end of json.loads: nothing but whitespace may follow the value.
AfterObject(s, obj) ==
    IF ~obj.ok THEN obj
    ELSE IF SkipWhitespace(s, obj.next) <= Len(s) THEN JsonError("Extra data")
    ELSE [ok |-> TRUE, value |-> obj.value]

ObjectAt(s, begin) ==
    IF begin <= Len(s) /\ s[begin] = "}"
    THEN [ok |-> TRUE, value |-> <<>>, next |-> begin + 1]
    ELSE ScanMembers(s, begin, <<>>)

ValueAt(s, start) ==
    IF start > Len(s) \/ s[start] # "{" THEN JsonError("Expecting value")
    ELSE AfterObject(s, ObjectAt(s, SkipWhitespace(s, start + 1)))

\* json.loads(text) for a text that opens an object: the dict (a function
\* from keys to string values), or the JSONDecodeError's message.
JsonLoadsObject(s) == ValueAt(s, SkipWhitespace(s, 1))

\* ------------------------------------------------------- inputs of a call
Tokens == {"t1", "t2"}
Urls == {"u1", "u2"}

\* The key sets a descriptor object may hold, and the objects.
DescriptorKeys == {"api_token", "api_url"}

DescriptorObjects ==
    {JObject(m) : m \in
        {f \in UNION {[K -> Tokens \cup Urls] : K \in SUBSET DescriptorKeys} :
            /\ ("api_token" \in DOMAIN f => f["api_token"] \in Tokens)
            /\ ("api_url" \in DOMAIN f => f["api_url"] \in Urls)}}

\* data['json_description'].data: bytes that are not UTF-8, UTF-8 text that
\* is not JSON, or a JSON document of any type.
Descriptors ==
    {[kind |-> "not_utf8"], [kind |-> "not_json"]}
    \cup {[kind |-> "json", value |-> v] :
            v \in {JNull, JNumber, JString(<<"a">>), JArray(<<>>)} \cup DescriptorObjects}

\* ---------------------------------------------------- upstream responses
ErrorMessages == {"model loading", "rate limit"}

\* response.content: an audio container, bytes that are neither JSON nor
\* audio, or a JSON document.
Bodies ==
    {[fmt |-> "audio", id |-> "a1"], [fmt |-> "garbage"]}
    \cup {[fmt |-> "json", value |-> v] : v \in
            {JNull, JNumber, JBool,
             JString(<<"o", "k">>), JString(<<"a", "n", SP>> \o ErrorChars),
             JArray(<<JString(<<"o", "k">>)>>), JArray(<<JString(ErrorChars)>>),
             JObject([k \in {"estimated_time"} |-> "20"])}
            \cup {JObject([k \in {"error"} |-> m]) : m \in ErrorMessages}}

\* What requests.post does: raise (no connection) or return a response.
Responses == {[kind |-> "failure"]} \cup {[kind |-> "content", body |-> b] : b \in Bodies}

\* ------------------------------------------------------------ variables
VARIABLES
    \* MyService.process: the inputs and the frame of the call in progress,
    data, api_token, api_url, headers, json_payload, result_data,
    \* and what that call did: the POSTs it issued, the messages it logged,
    \* the times it invoked the audio decoder, how it ended.
    posts, logged, decoder_calls, outcome,
    \* A deterministic upstream stub: the answers it has fixed so far
    \* (request -> response) and the exchange it served last.
    stub, served,
    \* The input whose calls are compared, the outcome of its first call, and
    \* where the comparison stands.
    probe, first, trail,
    \* settings.engine_urls and settings.engine_announce_retries.
    engine_urls, engine_announce_retries,
    \* announce(): its locals and where the task stands.
    retries, engine_index, announced, announce_pc,
    \* The shutdown loop of lifespan: where it stands.
    shutdown_index, shutdown_pc,
    \* The calls made to the engines, in order, and the warnings logged.
    engine_calls, warnings

processVars == <<data, api_token, api_url, headers, json_payload, result_data,
                 posts, logged, decoder_calls, outcome>>
stubVars == <<stub, served, probe, first, trail>>
lifespanVars == <<engine_urls, engine_announce_retries, retries, engine_index,
                  announced, announce_pc, shutdown_index, shutdown_pc,
                  engine_calls, warnings>>
vars == <<processVars, stubVars, lifespanVars>>

\* ------------------------------------------------- MyService.process
UnboundName == "<unbound>"
UnboundHeaders == [unbound |-> TRUE]
UnboundPayload == <<>>
UnboundBody == [fmt |-> "unbound"]
NoData == [json_description |-> [kind |-> "none"], input_text |-> <<>>]
NotCalled == [kind |-> "none"]

Raise(exc) == [kind |-> "raise", exc |-> exc]
Return(result) == [kind |-> "return", result |-> result]

\* Mutant: the clause written as `except json.JSONDecodeError`.
IsJSONDecodeError(type) == type = "JSONDecodeError"

\* The exception classes `except ValueError` catches here: json.loads raises
\* JSONDecodeError and bytes.decode raises UnicodeDecodeError, both
\* subclasses of ValueError.
IsValueError(type) == type \in {"JSONDecodeError", "UnicodeDecodeError"}

\* json.loads(data['json_description'].data.decode('utf-8'))
LoadDescriptor(doc) ==
    CASE doc.kind = "not_utf8" ->
            [ok |-> FALSE,
             exc |-> Exc("UnicodeDecodeError", <<"'utf-8' codec can't decode byte">>)]
      [] doc.kind = "not_json" ->
            [ok |-> FALSE, exc |-> Exc("JSONDecodeError", <<"Expecting value">>)]
      [] doc.kind = "json" -> [ok |-> TRUE, value |-> doc.value]

\* The except clauses of the try block: what leaves the block for `exc`.
DescriptorHandlers(exc) ==
    IF IsValueError(exc.type)
    THEN Exc("Exception", <<"json_description is invalid: ">> \o exc.args)
    ELSE IF exc.type = "KeyError"
    THEN Exc("Exception",
             <<"api_url or api_token missing from json_description: ">> \o exc.args)
    ELSE exc

\* The try block left by an exception, with the locals bound until then.
TryRaised(exc, token, url) ==
    [raised |-> TRUE, exc |-> DescriptorHandlers(exc), api_token |-> token,
     api_url |-> url]

\* Line 87, line 86 and line 85 of the try block, last to first.
AfterUrl(token, url) ==
    IF ~url.ok THEN TryRaised(url.exc, token.value, UnboundName)
    ELSE [raised |-> FALSE, api_token |-> token.value, api_url |-> url.value]

AfterToken(json_description, token) ==
    IF ~token.ok THEN TryRaised(token.exc, UnboundName, UnboundName)
    ELSE AfterUrl(token, PyGetItem(json_description, "api_url"))

AfterLoad(loaded) ==
    IF ~loaded.ok THEN TryRaised(loaded.exc, UnboundName, UnboundName)
    ELSE AfterToken(loaded.value, PyGetItem(loaded.value, "api_token"))

\* The try block: the locals it binds and the exception that leaves it.
ParseDescriptor(doc) == AfterLoad(LoadDescriptor(doc))

\* headers = {"Authorization": f"Bearer {api_token}"}
Headers(token) == [Authorization |-> <<"Bearer ", token>>]

\* f'{{ "inputs" : "{text}" }}'
InputsKey == <<"i", "n", "p", "u", "t", "s">>
JsonInputText(text) ==
    <<"{", SP, QUOTE>> \o InputsKey \o <<QUOTE, SP, ":", SP, QUOTE>>
        \o text \o <<QUOTE, SP, "}">>

\* json_payload = json.loads(json_input_text)
BuildPayload(text) == JsonLoadsObject(JsonInputText(text))

\* The request of requests.post(api_url, headers=headers, json=payload).
Request(url, hdrs, payload) == [url |-> url, headers |-> hdrs, json |-> payload]

\* Mutant: the query memoised on its only parameter, the payload, in a cache
\* of one entry: a hit returns the content last received and POSTs nothing.
text_to_audio_query_cached(url, hdrs, payload, response) ==
    IF /\ served.kind = "exchange"
       /\ served.response.kind = "content"
       /\ served.request.json = payload
    THEN [posts |-> <<>>, ok |-> TRUE, content |-> served.response.body]
    ELSE IF response.kind = "content"
    THEN [posts |-> <<Request(url, hdrs, payload)>>, ok |-> TRUE,
          content |-> response.body]
    ELSE [posts |-> <<Request(url, hdrs, payload)>>, ok |-> FALSE,
          exc |-> Exc("ConnectionError", <<"connection failed">>)]

\* text_to_audio_query: one POST; response.content, or the transport's
\* exception. `response` is what the upstream does with the request.
text_to_audio_query(url, hdrs, payload, response) ==
    IF response.kind = "content"
    THEN [posts |-> <<Request(url, hdrs, payload)>>, ok |-> TRUE,
          content |-> response.body]
    ELSE [posts |-> <<Request(url, hdrs, payload)>>, ok |-> FALSE,
          exc |-> Exc("ConnectionError", <<"connection failed">>)]

is_valid_json(body) == body.fmt = "json"

\* AudioSegment.from_file(io.BytesIO(result_data)) and the export to Ogg.
FromFile(body) ==
    IF body.fmt = "audio"
    THEN [ok |-> TRUE, segment |-> body.id]
    ELSE [ok |-> FALSE, exc |-> Exc("CouldntDecodeError", <<"Decoding failed">>)]

ExportOgg(segment) == [data |-> <<"ogg", segment>>, type |-> "AUDIO_OGG"]

\* How the part of the call after the POST ended.
Ended(messages, decodes, how) ==
    [logged |-> messages, decoder_calls |-> decodes, outcome |-> how]

\* Lines 116-120: decode the body and return the Ogg result.
Transcoded(segment) ==
    Ended(<<>>, 1, IF segment.ok THEN Return(ExportOgg(segment.segment))
                   ELSE Raise(segment.exc))

Transcode(body) == Transcoded(FromFile(body))

\* Mutant: the message is logged, and a fixed text is raised.
ErrorRaisedFixed(message) ==
    IF ~message.ok THEN Ended(<<>>, 0, Raise(message.exc))
    ELSE Ended(<<message.value>>, 0, Raise(Exc("Exception", <<"error">>)))

\* Lines 113-114: json_data['error'] is evaluated, logged and raised.
ErrorRaised(message) ==
    IF ~message.ok THEN Ended(<<>>, 0, Raise(message.exc))
    ELSE Ended(<<message.value>>, 0, Raise(Exc("Exception", <<message.value>>)))

\* Line 112: `'error' in json_data` has been evaluated.
ErrorChecked(body, has) ==
    IF ~has.ok THEN Ended(<<>>, 0, Raise(has.exc))
    ELSE IF has.value THEN ErrorRaised(PyGetItem(body.value, "error"))
    ELSE Transcode(body)

\* Lines 110-120: the error check on the body, then the decoder.
InspectResponse(body) ==
    IF is_valid_json(body) THEN ErrorChecked(body, PyContainsError(body.value))
    ELSE Transcode(body)

\* Lines 105-107, after headers are bound at line 92.
WithPayload(desc, payload) ==
    IF ~payload.ok
    THEN [raised |-> TRUE, exc |-> Exc("JSONDecodeError", <<payload.error>>),
          api_token |-> desc.api_token, api_url |-> desc.api_url,
          headers |-> Headers(desc.api_token), json_payload |-> UnboundPayload]
    ELSE [raised |-> FALSE, api_token |-> desc.api_token, api_url |-> desc.api_url,
          headers |-> Headers(desc.api_token), json_payload |-> payload.value]

WithDescriptor(desc, text) ==
    IF desc.raised
    THEN [raised |-> TRUE, exc |-> desc.exc, api_token |-> desc.api_token,
          api_url |-> desc.api_url, headers |-> UnboundHeaders,
          json_payload |-> UnboundPayload]
    ELSE WithPayload(desc, BuildPayload(text))

\* Lines 84-107: the call up to the POST.
BeforePost(doc, text) == WithDescriptor(ParseDescriptor(doc), text)

\* Lines 110-120 on what the POST gave.
AfterPost(query) ==
    IF query.ok THEN InspectResponse(query.content)
    ELSE Ended(<<>>, 0, Raise(query.exc))

\* No call is in progress: the task framework runs one call at a time.
Idle == outcome = NotCalled

\* process(data) when it raises before the POST.
ProcessFails(doc, text) ==
    /\ Idle
    /\ \E pre \in {BeforePost(doc, text)} :
        /\ pre.raised
        /\ data' = [json_description |-> doc, input_text |-> text]
        /\ api_token' = pre.api_token
        /\ api_url' = pre.api_url
        /\ headers' = pre.headers
        /\ json_payload' = pre.json_payload
        /\ result_data' = UnboundBody
        /\ posts' = <<>>
        /\ logged' = <<>>
        /\ decoder_calls' = 0
        /\ outcome' = Raise(pre.exc)

\* process(data) when it reaches the POST, the upstream answering `response`.
ProcessPosts(doc, text, response) ==
    /\ Idle
    /\ \E pre \in {BeforePost(doc, text)} :
        /\ ~pre.raised
        /\ \E query \in {text_to_audio_query(pre.api_url, pre.headers,
                                             pre.json_payload, response)} :
            \E rest \in {AfterPost(query)} :
                /\ data' = [json_description |-> doc, input_text |-> text]
                /\ api_token' = pre.api_token
                /\ api_url' = pre.api_url
                /\ headers' = pre.headers
                /\ json_payload' = pre.json_payload
                /\ result_data' = IF query.ok THEN query.content ELSE UnboundBody
                /\ posts' = query.posts
                /\ logged' = rest.logged
                /\ decoder_calls' = rest.decoder_calls
                /\ outcome' = rest.outcome

\* The call is over: its frame is gone, the caller has the outcome.
ProcessReturns ==
    /\ ~Idle
    /\ data' = NoData
    /\ api_token' = UnboundName
    /\ api_url' = UnboundName
    /\ headers' = UnboundHeaders
    /\ json_payload' = UnboundPayload
    /\ result_data' = UnboundBody
    /\ posts' = <<>>
    /\ logged' = <<>>
    /\ decoder_calls' = 0
    /\ outcome' = NotCalled

\* ------------------------------------------------------ lifespan: announce
EngineUrls == {"e1", "e2"}

AnnounceCall(url) == [op |-> "announce_service", url |-> url]
ShutdownCall(url) == [op |-> "graceful_shutdown", url |-> url]

\* Lines 150-152: the for loop at engine i (line 151 resets announced) and
\* the while test for engine i, with `left` retries: the next await (an
\* announce_service call for engine i), or the end of the task.
RECURSIVE ForLoop(_, _, _)
RECURSIVE WhileTest(_, _, _)

ForLoop(i, ann, left) ==
    IF i > Len(engine_urls)
    THEN [pc |-> "done", index |-> i, announced |-> ann, retries |-> left]
    ELSE WhileTest(i, FALSE, left)

\* Mutant: the while test written `retries >= 0`.
WhileTestInclusive(i, ann, left) ==
    IF ~ann /\ left >= 0
    THEN [pc |-> "awaiting", index |-> i, announced |-> ann, retries |-> left]
    ELSE ForLoop(i + 1, ann, left)

WhileTest(i, ann, left) ==
    IF ~ann /\ left > 0
    THEN [pc |-> "awaiting", index |-> i, announced |-> ann, retries |-> left]
    ELSE ForLoop(i + 1, ann, left)

\* Where the task stands next, and the announce_service call it makes there.
AnnounceGoes(to) ==
    /\ announce_pc' = to.pc
    /\ engine_index' = to.index
    /\ announced' = to.announced
    /\ retries' = to.retries
    /\ engine_calls' = IF to.pc = "awaiting"
                       THEN Append(engine_calls, AnnounceCall(engine_urls[to.index]))
                       ELSE engine_calls

\* Lines 149-153: the task starts and runs to its first await, or to its end.
AnnounceStart ==
    /\ announce_pc = "start"
    /\ AnnounceGoes(ForLoop(1, FALSE, engine_announce_retries))
    /\ UNCHANGED <<engine_urls, engine_announce_retries, shutdown_index, shutdown_pc,
                   warnings>>

\* Lines 153-161: announce_service returns `result`; the task runs to its
\* next await, or to its end. The sleep of line 156 blocks the event loop.
AnnounceResume(result) ==
    /\ announce_pc = "awaiting"
    /\ warnings' = IF ~result /\ retries - 1 = 0 THEN warnings + 1 ELSE warnings
    /\ AnnounceGoes(WhileTest(engine_index, result, retries - 1))
    /\ UNCHANGED <<engine_urls, engine_announce_retries, shutdown_index, shutdown_pc>>

\* ------------------------------------------------------ lifespan: shutdown
\* Lines 169-170 from engine i: the next graceful_shutdown call, or the end.
ShutdownGoes(i) ==
    IF i > Len(engine_urls)
    THEN /\ shutdown_pc' = "done"
         /\ shutdown_index' = i
         /\ engine_calls' = engine_calls
    ELSE /\ shutdown_pc' = "awaiting"
         /\ shutdown_index' = i
         /\ engine_calls' = Append(engine_calls, ShutdownCall(engine_urls[i]))

\* Line 166 resumes: the server stops. The announce task, scheduled at line
\* 164 before lifespan first suspends, has run to its first await by then.
ShutdownStart ==
    /\ shutdown_pc = "serving"
    /\ announce_pc # "start"
    /\ ShutdownGoes(1)
    /\ UNCHANGED <<engine_urls, engine_announce_retries, retries, engine_index,
                   announced, announce_pc, warnings>>

\* Line 170: graceful_shutdown returns.
ShutdownResume ==
    /\ shutdown_pc = "awaiting"
    /\ ShutdownGoes(shutdown_index + 1)
    /\ UNCHANGED <<engine_urls, engine_announce_retries, retries, engine_index,
                   announced, announce_pc, warnings>>

\* ------------------------------------------------------- specifications
NoProbe == NoData
NoExchange == [kind |-> "none"]

InitProcess ==
    /\ data = NoData
    /\ api_token = UnboundName
    /\ api_url = UnboundName
    /\ headers = UnboundHeaders
    /\ json_payload = UnboundPayload
    /\ result_data = UnboundBody
    /\ posts = <<>>
    /\ logged = <<>>
    /\ decoder_calls = 0
    /\ outcome = NotCalled

InitStub ==
    /\ stub = <<>>
    /\ served = NoExchange
    /\ probe = NoProbe
    /\ first = NotCalled
    /\ trail = "none"

\* The lifespan hook at line 164, for the given settings.
InitSettings(urls, n) ==
    /\ engine_urls = urls
    /\ engine_announce_retries = n
    /\ retries = 0
    /\ engine_index = 0
    /\ announced = FALSE
    /\ announce_pc = "start"
    /\ shutdown_index = 0
    /\ shutdown_pc = "serving"
    /\ engine_calls = <<>>
    /\ warnings = 0

\* --- Spec: calls of process against an upstream that may answer anything.
Init == InitProcess /\ InitStub /\ InitSettings(<<>>, 0)

CallFails ==
    /\ Idle
    /\ \E doc \in Descriptors, text \in Prompts :
        /\ ProcessFails(doc, text)
        /\ UNCHANGED <<stubVars, lifespanVars>>

CallPosts ==
    /\ Idle
    /\ \E doc \in Descriptors, text \in Prompts, response \in Responses :
        /\ ProcessPosts(doc, text, response)
        /\ UNCHANGED <<stubVars, lifespanVars>>

CallReturns == ProcessReturns /\ UNCHANGED <<stubVars, lifespanVars>>

Next == CallFails \/ CallPosts \/ CallReturns

Spec == Init /\ [][Next]_vars

\* --- SpecStub: calls of process against a deterministic upstream stub.
StubDescriptors ==
    {[kind |-> "not_json"]}
    \cup {[kind |-> "json", value |-> JObject(m)] : m \in
            {[k \in {"api_token"} |-> "t1"],
             [api_token |-> "t1", api_url |-> "u1"],
             [api_token |-> "t1", api_url |-> "u2"]}}
StubPrompts == {<<>>, <<"a">>, <<QUOTE>>}
StubResponses ==
    {[kind |-> "failure"]}
    \cup {[kind |-> "content", body |-> b] : b \in
            {[fmt |-> "audio", id |-> "a1"], [fmt |-> "garbage"],
             [fmt |-> "json", value |-> JObject([k \in {"error"} |-> "model loading"])]}}
StubInputs ==
    {[json_description |-> d, input_text |-> t] : d \in StubDescriptors, t \in StubPrompts}

InitStubbed ==
    /\ InitProcess
    /\ InitSettings(<<>>, 0)
    /\ stub = <<>>
    /\ served = NoExchange
    /\ probe \in StubInputs
    /\ first = NotCalled
    /\ trail = "none"

\* The comparison of the probe's calls, after a call with `input`.
Compare(input) ==
    /\ probe' = probe
    /\ first' = IF input = probe /\ first = NotCalled THEN outcome' ELSE first
    /\ trail' = IF input = probe
                THEN (CASE trail = "none" -> "first"
                        [] trail = "first" -> "first"
                        [] OTHER -> "again")
                ELSE (CASE trail = "first" -> "between"
                        [] OTHER -> trail)

StubCallFails ==
    /\ Idle
    /\ \E input \in StubInputs :
        /\ ProcessFails(input.json_description, input.input_text)
        /\ Compare(input)
        /\ UNCHANGED <<stub, served, lifespanVars>>

\* The stub answers a request as it answered it before; the answers to the
\* probe's requests are kept.
StubCallPosts ==
    /\ Idle
    /\ \E input \in StubInputs, response \in StubResponses :
        /\ ProcessPosts(input.json_description, input.input_text, response)
        /\ \A k \in 1..Len(posts') :
            posts'[k] \in DOMAIN stub => stub[posts'[k]] = response
        /\ stub' = IF input = probe /\ posts' # <<>>
                   THEN SetItem(stub, posts'[1], response)
                   ELSE stub
        /\ served' = IF posts' # <<>>
                     THEN [kind |-> "exchange", request |-> posts'[1],
                           response |-> response]
                     ELSE served
        /\ Compare(input)
        /\ UNCHANGED lifespanVars

StubCallReturns == ProcessReturns /\ UNCHANGED <<stubVars, lifespanVars>>

NextStub == StubCallFails \/ StubCallPosts \/ StubCallReturns

SpecStub == InitStubbed /\ [][NextStub]_vars

\* --- SpecPayload: one call per prompt, with a well-formed descriptor and an
\* upstream that answers with audio; the prompts are longer than in Spec.
InitPayload ==
    /\ InitProcess
    /\ InitSettings(<<>>, 0)
    /\ stub = <<>>
    /\ served = NoExchange
    /\ probe \in {[json_description |->
                      [kind |-> "json",
                       value |-> JObject([api_token |-> "t1", api_url |-> "u1"])],
                   input_text |-> t] : t \in SeqsUpTo(Alphabet, MaxInjectLen)}
    /\ first = NotCalled
    /\ trail = "none"

PayloadRejected ==
    /\ ProcessFails(probe.json_description, probe.input_text)
    /\ UNCHANGED <<stubVars, lifespanVars>>

PayloadPosted ==
    /\ ProcessPosts(probe.json_description, probe.input_text,
                    [kind |-> "content", body |-> [fmt |-> "audio", id |-> "a1"]])
    /\ UNCHANGED <<stubVars, lifespanVars>>

NextPayload == PayloadRejected \/ PayloadPosted

SpecPayload == InitPayload /\ [][NextPayload]_vars

\* --- SpecLifespan: the announce task and the shutdown loop, interleaved at
\* their awaits.
InitLifespan ==
    /\ InitProcess
    /\ InitStub
    /\ \E urls \in SeqsUpTo(EngineUrls, MaxEngines), n \in 0..MaxRetries :
        InitSettings(urls, n)

AnnounceStarts == AnnounceStart /\ UNCHANGED <<processVars, stubVars>>
AnnounceResumes ==
    \E result \in BOOLEAN : AnnounceResume(result) /\ UNCHANGED <<processVars, stubVars>>
ShutdownStarts == ShutdownStart /\ UNCHANGED <<processVars, stubVars>>
ShutdownResumes == ShutdownResume /\ UNCHANGED <<processVars, stubVars>>

NextLifespan == AnnounceStarts \/ AnnounceResumes \/ ShutdownStarts \/ ShutdownResumes

SpecLifespan == InitLifespan /\ [][NextLifespan]_vars

\* Every announce_service call returns and the event loop runs the task.
FairLifespan ==
    SpecLifespan /\ WF_vars(AnnounceStarts) /\ WF_vars(AnnounceResumes)

\* ------------------------------------------------------------- claims
Called == outcome # NotCalled

\* The locals of a descriptor that holds both fields.
IsWellFormed(doc) ==
    /\ doc.kind = "json"
    /\ doc.value.type = "object"
    /\ DescriptorKeys \subseteq DOMAIN doc.value.members

IsErrorObject(body) ==
    /\ body.fmt = "json"
    /\ body.value.type = "object"
    /\ "error" \in DOMAIN body.value.members

\* The announce_service calls made so far.
AnnounceCalls == {k \in 1..Len(engine_calls) : engine_calls[k].op = "announce_service"}

\* C1: a call whose json_description does not decode as UTF-8 JSON fails with
\* 'json_description is invalid: <the parser's message>' and has issued no
\* POST.
C1_InvalidDescriptor ==
    (Called /\ data.json_description.kind \in {"not_utf8", "not_json"}) =>
        /\ outcome = Raise(Exc("Exception",
                <<"json_description is invalid: ">>
                    \o LoadDescriptor(data.json_description).exc.args))
        /\ posts = <<>>

C1_Witness ==
    /\ Called
    /\ data.json_description.kind = "not_utf8"
    /\ data.input_text = <<"a">>
    /\ outcome.kind = "raise"

\* C2: a call whose json_description decodes as JSON of any type but lacks
\* api_token or api_url fails with 'api_url or api_token missing from
\* json_description' and has issued no POST.
C2_MissingField ==
    (Called /\ data.json_description.kind = "json"
            /\ ~IsWellFormed(data.json_description)) =>
        /\ outcome.kind = "raise"
        /\ outcome.exc.type = "Exception"
        /\ outcome.exc.args[1] = "api_url or api_token missing from json_description: "
        /\ posts = <<>>

\* C3: when the response body is a JSON object with an `error` key, the call
\* raises Exception(<the value of that key>), has logged that value, has not
\* invoked the audio decoder and returns no result.
C3_UpstreamError ==
    (Called /\ IsErrorObject(result_data)) =>
        /\ outcome = Raise(Exc("Exception", <<result_data.value.members["error"]>>))
        /\ logged = <<result_data.value.members["error"]>>
        /\ decoder_calls = 0

C3_Witness ==
    /\ Called
    /\ IsErrorObject(result_data)
    /\ result_data.value.members["error"] = "model loading"
    /\ outcome.kind = "raise"
    /\ Len(posts) = 1

\* C4: when the response body is neither a JSON object with an `error` key
\* nor a decodable audio container, the call fails with the decoder's
\* unsupported-format error.
C4_UnsupportedAudioFormat ==
    (Called /\ result_data # UnboundBody /\ ~IsErrorObject(result_data)
            /\ result_data.fmt # "audio") =>
        /\ outcome.kind = "raise"
        /\ outcome.exc.type = "CouldntDecodeError"

\* C5: a call with a well-formed descriptor issues exactly one POST, to
\* api_url with the header Authorization: Bearer <api_token>.
C5_ExactlyOnePost ==
    (Called /\ IsWellFormed(data.json_description)) =>
        /\ Len(posts) = 1
        /\ posts[1].url = data.json_description.value.members["api_url"]
        /\ posts[1].headers =
            [Authorization |->
                <<"Bearer ", data.json_description.value.members["api_token"]>>]

\* C6: the JSON body of every POST is an object with exactly one key,
\* `inputs`, whose value is the prompt unchanged.
C6_PayloadIsPrompt ==
    Called =>
        \A k \in 1..Len(posts) :
            /\ DOMAIN posts[k].json = {InputsKey}
            /\ posts[k].json[InputsKey] = data.input_text

C8_AnnounceBounded ==
    /\ [](Cardinality(AnnounceCalls) <= engine_announce_retries /\ retries >= 0)
    /\ <>(announce_pc = "done")

C8_Witness ==
    /\ announce_pc = "done"
    /\ Len(engine_urls) = 2
    /\ engine_urls[1] # engine_urls[2]
    /\ engine_announce_retries = 3
    /\ Cardinality(AnnounceCalls) = 3
    /\ \E k \in AnnounceCalls : engine_calls[k].url = engine_urls[2]

\* C9: when settings.engine_announce_retries >= 1, every engine URL has
\* received an announce_service call by the time the announce task ends.
C9_EveryEngineAttempted ==
    (announce_pc = "done" /\ engine_announce_retries >= 1) =>
        \A i \in 1..Len(engine_urls) :
            \E k \in AnnounceCalls : engine_calls[k].url = engine_urls[i]

\* C10: no announce_service call for an engine URL is made after
\* graceful_shutdown has been called for that engine URL.
C10_NoAnnounceAfterShutdown ==
    \A i \in 1..Len(engine_calls), j \in 1..Len(engine_calls) :
        (i < j /\ engine_calls[i].op = "graceful_shutdown") =>
            engine_calls[j] # AnnounceCall(engine_calls[i].url)

====
